---- MODULE Spec2Model ----
(***************************************************************************)
(* Model of app/orders_analytics.py: the four analytics functions over a   *)
(* pandas DataFrame and generate_analytics_reports, which runs them over   *)
(* one DataFrame object.                                                   *)
(*                                                                         *)
(* A DataFrame is [columns |-> sequence of column labels,                  *)
(*                 rows    |-> sequence of functions label -> value].      *)
(* String cells are strings; a missing cell (NaN) is the value NaN.        *)
(* Numbers are fixed point: cost price, List Price, Quantity and Discount  *)
(* Percent are whole numbers, Profit and Total_Profit are in hundredths    *)
(* (Profit 150 is 1.5), so that 1 - Discount Percent/100 needs no          *)
(* fraction.  The discounts drawn (0, 25) make the floating-point          *)
(* computation of the code exact, so both agree on the inputs drawn.       *)
(* Missing numeric cells are not modelled.                                 *)
(***************************************************************************)
EXTENDS Integers, Sequences, FiniteSets, TLC

VARIABLES
    orders_df,  \* the DataFrame object the caller holds and passes to the functions
    call,       \* the last call: [fn |-> function name, arg |-> orders_df before it]
    ret,        \* its outcome: [raised, key, value]
    kept,       \* a call and its outcome that the caller has kept: [fn, arg, ret]
    event,          \* lambda_handler: the S3 event notification it is invoked with
    environ,        \* os.environ
    s3_object,      \* what get_object of the input bucket gives for the event's key
    effects,        \* the S3 requests made and the analytics runs, in order
    output_bucket,  \* the objects stored in the output bucket, in order
    response        \* what the invocation returned, or the exception it let out

analyticsVars == <<orders_df, call, ret, kept>>
lambdaVars == <<event, environ, s3_object, effects, output_bucket, response>>
vars == <<orders_df, call, ret, kept, event, environ, s3_object, effects,
          output_bucket, response>>

----------------------------------------------------------------------------
(* Bounds *)

MaxRows == 3

\* rows of a DataFrame on which calls are repeated
MaxRerunRows == 2

\* rows of a DataFrame stored in the input bucket
MaxLambdaRows == 1

----------------------------------------------------------------------------
(* Values *)

NaN == "NaN"
None == "None"

\* Python compares str values by code point; the labels of the inputs drawn
\* and of the fixtures of the tests, in that order.
Lexicon ==
    << "Bookcases", "Central", "Chairs", "East", "Express", "First Class",
       "Furniture", "Ground", "Labels", "Office Supplies", "Phones", "Same Day",
       "South", "Standard Class", "Storage", "Tables", "Technology", "West" >>

Ord(s) == CHOOSE i \in 1..Len(Lexicon) : Lexicon[i] = s

\* a < b for two group keys (tuples of labels of the same length)
RECURSIVE KeyLess(_, _)
KeyLess(a, b) ==
    IF Len(a) = 0 THEN FALSE
    ELSE IF Ord(Head(a)) # Ord(Head(b)) THEN Ord(Head(a)) < Ord(Head(b))
    ELSE KeyLess(Tail(a), Tail(b))

Range(s) == {s[i] : i \in 1..Len(s)}

RequiredColumns == <<"List Price", "Quantity", "Discount Percent", "cost price">>

AllColumns ==
    << "Ship Mode", "Region", "Category", "Sub Category",
       "cost price", "List Price", "Quantity", "Discount Percent" >>

----------------------------------------------------------------------------
(* DataFrame primitives *)

DataFrame(columns, rows) == [columns |-> columns, rows |-> rows]

Columns(df) == Range(df.columns)

\* df.empty: some axis has length 0
IsEmpty(df) == Len(df.rows) = 0 \/ Len(df.columns) = 0

\* the first label of keys that is no column of df, None when all are
RECURSIVE FirstMissing(_, _)
FirstMissing(df, keys) ==
    IF Len(keys) = 0 THEN None
    ELSE IF Head(keys) \notin Columns(df) THEN Head(keys)
    ELSE FirstMissing(df, Tail(keys))

\* mutant: the column is always added as a new last column (concat for the
\* assignment), also when the label is there already
SetColumnAppended(df, label, values) ==
    DataFrame(Append(df.columns, label),
              [i \in 1..Len(df.rows) |->
                  [c \in Columns(df) \cup {label} |->
                      IF c = label THEN values[i] ELSE df.rows[i][c]]])

\* df[label] = values: an existing column is overwritten in place, a new one
\* is appended as the last column
SetColumn(df, label, values) ==
    LET columns == IF label \in Columns(df) THEN df.columns
                   ELSE Append(df.columns, label)
    IN  DataFrame(columns,
                  [i \in 1..Len(df.rows) |->
                      [c \in Range(columns) |->
                          IF c = label THEN values[i] ELSE df.rows[i][c]]])

\* outcomes of a call: the value returned or the exception raised, and the
\* argument object as the call leaves it
Returned(value, df) == [raised |-> None, key |-> None, value |-> value, df |-> df]
Raised(exc, key, df) == [raised |-> exc, key |-> key, value |-> None, df |-> df]

----------------------------------------------------------------------------
(* groupby *)

\* the group key of a row: its values in the columns grouped by
GroupKey(row, by) == [j \in 1..Len(by) |-> row[by[j]]]

HasNaN(key) == \E j \in 1..Len(key) : key[j] = NaN

MinKey(S) == CHOOSE k \in S : \A other \in S : ~KeyLess(other, k)

RECURSIVE SortedKeys(_)
SortedKeys(S) ==
    IF S = {} THEN <<>>
    ELSE <<MinKey(S)>> \o SortedKeys(S \ {MinKey(S)})

\* groupby(by): the distinct keys observed, ascending (sort=True); rows with
\* a NaN in a key column belong to no group (dropna=True)
GroupKeys(df, by) ==
    SortedKeys({k \in {GroupKey(r, by) : r \in Range(df.rows)} : ~HasNaN(k)})

GroupRows(df, by, key) == SelectSeq(df.rows, LAMBDA r : GroupKey(r, by) = key)

RECURSIVE SumColumn(_, _)
SumColumn(rows, label) ==
    IF Len(rows) = 0 THEN 0
    ELSE Head(rows)[label] + SumColumn(Tail(rows), label)

\* Series.max(): NaN for an empty Series
SeriesMax(values) ==
    IF values = {} THEN NaN
    ELSE CHOOSE m \in values : \A v \in values : v <= m

\* groupby(by).size().reset_index(name=name)
GroupBySize(df, by, name) ==
    LET keys == GroupKeys(df, by)
    IN  DataFrame(by \o <<name>>,
                  [i \in 1..Len(keys) |->
                      [c \in Range(by) \cup {name} |->
                          IF c = name THEN Len(GroupRows(df, by, keys[i]))
                          ELSE keys[i][CHOOSE j \in 1..Len(by) : by[j] = c]]])

\* mutant: the comparison turned round, a descending sort
RECURSIVE InsertSortedDescending(_, _)
InsertSortedDescending(sorted, e) ==
    IF Len(sorted) = 0 THEN <<e>>
    ELSE IF KeyLess(Head(sorted).key, e.key) THEN <<e>> \o sorted
    ELSE <<Head(sorted)>> \o InsertSortedDescending(Tail(sorted), e)

\* a stable ascending sort of entries [key |-> tuple of labels, item |-> x]
RECURSIVE InsertSorted(_, _)
InsertSorted(sorted, e) ==
    IF Len(sorted) = 0 THEN <<e>>
    ELSE IF KeyLess(e.key, Head(sorted).key) THEN <<e>> \o sorted
    ELSE <<Head(sorted)>> \o InsertSorted(Tail(sorted), e)

RECURSIVE StableSort(_)
StableSort(entries) ==
    IF Len(entries) = 0 THEN <<>>
    ELSE InsertSorted(StableSort(SubSeq(entries, 1, Len(entries) - 1)),
                      entries[Len(entries)])

RECURSIVE Concat(_)
Concat(seqs) == IF Len(seqs) = 0 THEN <<>> ELSE Head(seqs) \o Concat(Tail(seqs))

----------------------------------------------------------------------------
(* calculate_profit_by_order *)

\* List Price * Quantity * (1 - Discount Percent / 100), in hundredths
Revenue(row) == row["List Price"] * row["Quantity"] * (100 - row["Discount Percent"])

\* cost price * Quantity, in hundredths
TotalCost(row) == row["cost price"] * row["Quantity"] * 100

\* mutant: the discount taken off the margin instead of off the revenue
ProfitDiscountOnMargin(row) ==
    (row["List Price"] * row["Quantity"] - row["cost price"] * row["Quantity"])
        * (100 - row["Discount Percent"])

Profit(row) == Revenue(row) - TotalCost(row)

\* mutant: Profit is assigned the revenue before cost price is read, so a
\* missing cost price leaves a Profit column behind
calculate_profit_assign_early(df) ==
    LET early == FirstMissing(df, <<"List Price", "Quantity", "Discount Percent">>)
        partial == SetColumn(df, "Profit",
                             [i \in 1..Len(df.rows) |-> Revenue(df.rows[i])])
        out == SetColumn(df, "Profit",
                         [i \in 1..Len(df.rows) |-> Profit(df.rows[i])])
    IN  IF early # None THEN Raised("KeyError", early, df)
        ELSE IF "cost price" \notin Columns(df)
             THEN Raised("KeyError", "cost price", partial)
        ELSE Returned(out, out)

\* mutant: the result is built from the columns read only
calculate_profit_selected_columns(df) ==
    LET missing == FirstMissing(df, RequiredColumns)
        out == SetColumn(
                   DataFrame(RequiredColumns,
                             [i \in 1..Len(df.rows) |->
                                 [c \in Range(RequiredColumns) |-> df.rows[i][c]]]),
                   "Profit", [i \in 1..Len(df.rows) |-> Profit(df.rows[i])])
    IN  IF missing # None THEN Raised("KeyError", missing, df)
        ELSE Returned(out, out)

\* The column reads of lines 10 and 13 raise KeyError for the first missing
\* label before line 19 assigns; the assignment writes into the argument
\* object, which is also the object returned.
calculate_profit_by_order(df) ==
    LET missing == FirstMissing(df, RequiredColumns)
        out == SetColumn(df, "Profit",
                         [i \in 1..Len(df.rows) |-> Profit(df.rows[i])])
    IN  IF missing # None THEN Raised("KeyError", missing, df)
        ELSE Returned(out, out)

----------------------------------------------------------------------------
(* calculate_most_profitable_region *)

\* groupby('Region')['Profit'].sum(): a Series as a sequence of <<region, sum>>
RegionProfits(df) ==
    LET keys == GroupKeys(df, <<"Region">>)
    IN  [i \in 1..Len(keys) |->
            <<keys[i][1], SumColumn(GroupRows(df, <<"Region">>, keys[i]), "Profit")>>]

\* mutant: the maximum is sought from 0 upwards
MaxProfitFromZero(region_profits) ==
    SeriesMax({p[2] : p \in Range(region_profits)} \cup {0})

MaxProfit(region_profits) == SeriesMax({p[2] : p \in Range(region_profits)})

MostProfitableRegions(region_profits) ==
    LET max_profit == MaxProfit(region_profits)
        selected == SelectSeq(region_profits, LAMBDA p : p[2] = max_profit)
        sorted == StableSort([i \in 1..Len(selected) |->
                                 [key |-> <<selected[i][1]>>, item |-> selected[i]]])
    IN  [i \in 1..Len(sorted) |-> sorted[i].item]

calculate_most_profitable_region(df) ==
    LET regions == MostProfitableRegions(RegionProfits(df))
    IN  IF "Region" \notin Columns(df) THEN Raised("KeyError", "Region", df)
        ELSE IF "Profit" \notin Columns(df)
             THEN Raised("KeyError", "Column not found: Profit", df)
        ELSE Returned(
                 DataFrame(<<"Region", "Total_Profit">>,
                           [i \in 1..Len(regions) |->
                               ("Region" :> regions[i][1])
                                   @@ ("Total_Profit" :> regions[i][2])]),
                 df)

----------------------------------------------------------------------------
(* find_most_common_ship_method *)

\* mutant: the first most frequent mode only (idxmax)
MostCommonFirst(counts, category) ==
    LET group == SelectSeq(counts.rows, LAMBDA r : r["Category"] = category)
        max_count == SeriesMax({r["Count"] : r \in Range(group)})
    IN  SubSeq(SelectSeq(group, LAMBDA r : r["Count"] = max_count), 1, 1)

\* the rows of one category of the counts that reach the category's maximum
MostCommon(counts, category) ==
    LET group == SelectSeq(counts.rows, LAMBDA r : r["Category"] = category)
        max_count == SeriesMax({r["Count"] : r \in Range(group)})
    IN  SelectSeq(group, LAMBDA r : r["Count"] = max_count)

\* mutant: the sort columns taken last first (Ship Mode before Category)
SortValuesLastFirst(rows, by) ==
    LET sorted == StableSort([i \in 1..Len(rows) |->
                                 [key |-> GroupKey(rows[i], <<by[Len(by)], by[1]>>),
                                  item |-> rows[i]]])
    IN  [i \in 1..Len(sorted) |-> sorted[i].item]

\* sort_values(by).reset_index(drop=True)
SortValues(rows, by) ==
    LET sorted == StableSort([i \in 1..Len(rows) |->
                                 [key |-> GroupKey(rows[i], by), item |-> rows[i]]])
    IN  [i \in 1..Len(sorted) |-> sorted[i].item]

ShipMethodRows(df) ==
    LET ship_method_counts == GroupBySize(df, <<"Category", "Ship Mode">>, "Count")
        categories == GroupKeys(ship_method_counts, <<"Category">>)
        result_rows == [i \in 1..Len(categories) |->
                           MostCommon(ship_method_counts, categories[i][1])]
    IN  SortValues(Concat(result_rows), <<"Category", "Ship Mode">>)

\* mutant: without the guards of lines 51 and 62, pd.concat of no frames raises
find_most_common_ship_method_unguarded(df) ==
    LET missing == FirstMissing(df, <<"Category", "Ship Mode">>)
    IN  IF missing # None THEN Raised("KeyError", missing, df)
        ELSE IF Len(ShipMethodRows(df)) = 0
             THEN Raised("ValueError", "No objects to concatenate", df)
        ELSE Returned(DataFrame(<<"Category", "Ship Mode", "Count">>,
                                ShipMethodRows(df)), df)

find_most_common_ship_method(df) ==
    LET missing == FirstMissing(df, <<"Category", "Ship Mode">>)
    IN  IF IsEmpty(df)
        THEN Returned(DataFrame(<<"Category", "Ship Mode", "Count">>, <<>>), df)
        ELSE IF missing # None THEN Raised("KeyError", missing, df)
        ELSE Returned(DataFrame(<<"Category", "Ship Mode", "Count">>,
                                ShipMethodRows(df)), df)

----------------------------------------------------------------------------
(* find_number_of_order_per_category *)

\* mutant: the distinct pairs are counted, not the rows (nunique for size)
find_number_of_order_per_category_unique(df) ==
    LET missing == FirstMissing(df, <<"Category", "Sub Category">>)
        sizes == GroupBySize(df, <<"Category", "Sub Category">>, "order_count")
    IN  IF missing # None THEN Raised("KeyError", missing, df)
        ELSE Returned(DataFrame(sizes.columns,
                                [i \in 1..Len(sizes.rows) |->
                                    [c \in Range(sizes.columns) |->
                                        IF c = "order_count" THEN 1
                                        ELSE sizes.rows[i][c]]]),
                      df)

find_number_of_order_per_category(df) ==
    LET missing == FirstMissing(df, <<"Category", "Sub Category">>)
    IN  IF missing # None THEN Raised("KeyError", missing, df)
        ELSE Returned(GroupBySize(df, <<"Category", "Sub Category">>, "order_count"),
                      df)

----------------------------------------------------------------------------
(* generate_analytics_reports *)

\* mutant: the category counts stored under both report names
generate_analytics_reports_copy_paste(df) ==
    LET p == calculate_profit_by_order(df)
        region == calculate_most_profitable_region(p.value)
        ship == find_most_common_ship_method(p.df)
        category == find_number_of_order_per_category(p.df)
    IN  IF p.raised # None THEN Raised(p.raised, p.key, p.df)
        ELSE IF region.raised # None THEN Raised(region.raised, region.key, p.df)
        ELSE IF ship.raised # None THEN Raised(ship.raised, ship.key, p.df)
        ELSE IF category.raised # None THEN Raised(category.raised, category.key, p.df)
        ELSE Returned(
                 ("orders_with_profit" :> p.value)
                     @@ ("most_profitable_region" :> region.value)
                     @@ ("most_common_ship_method" :> category.value)
                     @@ ("orders_by_category" :> category.value),
                 p.df)

\* mutant: a failed profit calculation is caught and the two reports that do
\* not need Profit are returned
generate_analytics_reports_partial(df) ==
    LET p == calculate_profit_by_order(df)
        region == calculate_most_profitable_region(p.value)
        ship == find_most_common_ship_method(p.df)
        category == find_number_of_order_per_category(p.df)
    IN  IF ship.raised # None THEN Raised(ship.raised, ship.key, p.df)
        ELSE IF category.raised # None THEN Raised(category.raised, category.key, p.df)
        ELSE IF p.raised # None
             THEN Returned(("most_common_ship_method" :> ship.value)
                               @@ ("orders_by_category" :> category.value),
                           p.df)
        ELSE IF region.raised # None THEN Raised(region.raised, region.key, p.df)
        ELSE Returned(
                 ("orders_with_profit" :> p.value)
                     @@ ("most_profitable_region" :> region.value)
                     @@ ("most_common_ship_method" :> ship.value)
                     @@ ("orders_by_category" :> category.value),
                 p.df)

\* orders_df and orders_with_profit name one object, so the two reports of
\* lines 94 and 97 are computed from the DataFrame that holds Profit.  An
\* exception of any step leaves the function at once.
generate_analytics_reports(df) ==
    LET p == calculate_profit_by_order(df)
        region == calculate_most_profitable_region(p.value)
        ship == find_most_common_ship_method(p.df)
        category == find_number_of_order_per_category(p.df)
    IN  IF p.raised # None THEN Raised(p.raised, p.key, p.df)
        ELSE IF region.raised # None THEN Raised(region.raised, region.key, p.df)
        ELSE IF ship.raised # None THEN Raised(ship.raised, ship.key, p.df)
        ELSE IF category.raised # None THEN Raised(category.raised, category.key, p.df)
        ELSE Returned(
                 ("orders_with_profit" :> p.value)
                     @@ ("most_profitable_region" :> region.value)
                     @@ ("most_common_ship_method" :> ship.value)
                     @@ ("orders_by_category" :> category.value),
                 p.df)

----------------------------------------------------------------------------
(* The inputs: the DataFrames a caller builds *)

BaseRow ==
    ("Ship Mode" :> "Standard Class") @@ ("Region" :> "West")
        @@ ("Category" :> "Furniture") @@ ("Sub Category" :> "Chairs")
        @@ ("cost price" :> 2) @@ ("List Price" :> 3)
        @@ ("Quantity" :> 1) @@ ("Discount Percent" :> 0)

\* rows that differ in cost price, Quantity and Discount Percent (List Price
\* differs among RegionRows)
ProfitRows ==
    { ("cost price" :> c) @@ ("List Price" :> 4) @@ ("Quantity" :> q)
          @@ ("Discount Percent" :> d) @@ BaseRow :
        c \in {1, 3}, q \in {1, 2}, d \in {0, 25} }

\* rows that differ in Region and in profit (-2, -1 or 1 a piece)
RegionRows ==
    { ("Region" :> r) @@ ("List Price" :> l) @@ BaseRow :
        r \in {NaN, "Central", "East", "West"}, l \in {0, 1, 3} }

\* rows that differ in Category and Ship Mode
ShipRows ==
    { ("Category" :> c) @@ ("Ship Mode" :> s) @@ BaseRow :
        c \in {NaN, "Furniture", "Office Supplies"},
        s \in {NaN, "First Class", "Same Day", "Standard Class"} }

\* rows that differ in Category and Sub Category
CategoryRows ==
    { ("Category" :> c) @@ ("Sub Category" :> s) @@ BaseRow :
        c \in {NaN, "Furniture", "Technology"},
        s \in {NaN, "Bookcases", "Chairs"} }

\* rows for the DataFrames that lack columns
SchemaRows ==
    { BaseRow, ("Region" :> "East") @@ ("Category" :> "Technology") @@ BaseRow }

SeqsUpTo(S, n) == UNION {[1..k -> S] : k \in 0..n}

Restrict(row, columns) == [c \in Range(columns) |-> row[c]]

\* every column present, at most MaxRows rows of one of the families
FullFrames ==
    { DataFrame(AllColumns, rows) :
        rows \in SeqsUpTo(ProfitRows, MaxRows) \cup SeqsUpTo(RegionRows, MaxRows)
                 \cup SeqsUpTo(ShipRows, MaxRows) \cup SeqsUpTo(CategoryRows, MaxRows) }

\* some columns dropped (not all)
ColumnSubsets ==
    { SelectSeq(AllColumns, LAMBDA c : c \notin dropped) :
        dropped \in (SUBSET Range(AllColumns)) \ {{}, Range(AllColumns)} }

PartialFrames ==
    { DataFrame(columns, [i \in 1..Len(rows) |-> Restrict(rows[i], columns)]) :
        columns \in ColumnSubsets, rows \in SeqsUpTo(SchemaRows, MaxRows) }

----------------------------------------------------------------------------
(* The state machine: a caller holding one DataFrame calls the functions *)

NoCall == "none"

NoResult == [raised |-> None, key |-> None, value |-> None]

NothingKept == [fn |-> NoCall, arg |-> None, ret |-> NoResult]

\* the handler of lambda.py has not been invoked
NotInvoked == [status |-> "not invoked", statusCode |-> None, body |-> None]

\* the analytics functions are called directly: no event, no bucket
NoLambda ==
    /\ event = <<>>
    /\ environ = <<>>
    /\ s3_object = [error |-> "NoSuchKey"]
    /\ effects = <<>>
    /\ output_bucket = <<>>
    /\ response = NotInvoked

Init ==
    /\ orders_df \in FullFrames \cup PartialFrames
    /\ call = [fn |-> NoCall, arg |-> orders_df]
    /\ ret = NoResult
    /\ kept = NothingKept
    /\ NoLambda

Do(fn, outcome) ==
    /\ call' = [fn |-> fn, arg |-> orders_df]
    /\ ret' = [raised |-> outcome.raised, key |-> outcome.key, value |-> outcome.value]
    /\ orders_df' = outcome.df
    /\ UNCHANGED kept
    /\ UNCHANGED lambdaVars

CallCalculateProfitByOrder ==
    Do("calculate_profit_by_order", calculate_profit_by_order(orders_df))

CallCalculateMostProfitableRegion ==
    Do("calculate_most_profitable_region", calculate_most_profitable_region(orders_df))

CallFindMostCommonShipMethod ==
    Do("find_most_common_ship_method", find_most_common_ship_method(orders_df))

CallFindNumberOfOrderPerCategory ==
    Do("find_number_of_order_per_category", find_number_of_order_per_category(orders_df))

CallGenerateAnalyticsReports ==
    Do("generate_analytics_reports", generate_analytics_reports(orders_df))

Next ==
    \/ CallCalculateProfitByOrder
    \/ CallCalculateMostProfitableRegion
    \/ CallFindMostCommonShipMethod
    \/ CallFindNumberOfOrderPerCategory
    \/ CallGenerateAnalyticsReports

Spec == Init /\ [][Next]_vars

----------------------------------------------------------------------------
(* Repeated calls: the caller keeps the outcome of one call, goes on       *)
(* calling the functions with the same DataFrame object, and compares.     *)

\* one column dropped
OneColumnDropped ==
    { SelectSeq(AllColumns, LAMBDA c : c # dropped) : dropped \in Range(AllColumns) }

RerunFrames ==
    { DataFrame(AllColumns, rows) :
        rows \in SeqsUpTo(ProfitRows, MaxRerunRows) \cup SeqsUpTo(RegionRows, MaxRerunRows)
                 \cup SeqsUpTo(ShipRows, MaxRerunRows)
                 \cup SeqsUpTo(CategoryRows, MaxRerunRows) }
    \cup
    { DataFrame(columns, [i \in 1..Len(rows) |-> Restrict(rows[i], columns)]) :
        columns \in OneColumnDropped, rows \in SeqsUpTo(SchemaRows, MaxRerunRows) }

InitRerun ==
    /\ orders_df \in RerunFrames
    /\ call = [fn |-> NoCall, arg |-> orders_df]
    /\ ret = NoResult
    /\ kept = NothingKept
    /\ NoLambda

\* first = f(orders_df): the caller keeps what the call just made gave
KeepResult ==
    /\ call.fn # NoCall
    /\ kept.fn = NoCall
    /\ kept' = [fn |-> call.fn, arg |-> call.arg, ret |-> ret]
    /\ UNCHANGED <<orders_df, call, ret>>
    /\ UNCHANGED lambdaVars

NextRerun ==
    \/ CallCalculateProfitByOrder
    \/ CallCalculateMostProfitableRegion
    \/ CallFindMostCommonShipMethod
    \/ CallFindNumberOfOrderPerCategory
    \/ CallGenerateAnalyticsReports
    \/ KeepResult

SpecRerun == InitRerun /\ [][NextRerun]_vars

----------------------------------------------------------------------------
(* app/lambda.py.  A str is a sequence of pieces: an object key is a       *)
(* sequence of its characters, a formatted string the concatenation of     *)
(* its literal pieces and its values.  A JSON object is a function on its  *)
(* member names, a JSON array a sequence.                                  *)

\* str.lower() on the letters the keys drawn are made of
UpperToLower == ("C" :> "c") @@ ("S" :> "s") @@ ("V" :> "v") @@ ("O" :> "o")

Lower(s) ==
    [i \in 1..Len(s) |-> IF s[i] \in DOMAIN UpperToLower THEN UpperToLower[s[i]] ELSE s[i]]

EndsWith(s, suffix) ==
    /\ Len(s) >= Len(suffix)
    /\ SubSeq(s, Len(s) - Len(suffix) + 1, Len(s)) = suffix

\* the last position of character c in s, 0 when it is not in s
LastIndex(s, c) ==
    IF \E i \in 1..Len(s) : s[i] = c
    THEN CHOOSE i \in 1..Len(s) : s[i] = c /\ \A j \in (i + 1)..Len(s) : s[j] # c
    ELSE 0

\* os.path.basename
Basename(path) == SubSeq(path, LastIndex(path, "/") + 1, Len(path))

\* os.path.splitext(name)[0]: the name up to its last dot; leading dots
\* begin no extension
SplitextRoot(name) ==
    LET dot == LastIndex(name, ".")
    IN  IF dot > 0 /\ \E j \in 1..(dot - 1) : name[j] # "."
        THEN SubSeq(name, 1, dot - 1)
        ELSE name

\* mutant: the suffix compared without lower()
IsCsvKeyCaseSensitive(object_key) == EndsWith(object_key, <<".", "c", "s", "v">>)

\* object_key.lower().endswith('.csv')
IsCsvKey(object_key) == EndsWith(Lower(object_key), <<".", "c", "s", "v">>)

\* outcomes of a step of the handler
Ok(value) == [raised |-> None, msg |-> <<>>, value |-> value]
Fail(exc, msg) == [raised |-> exc, msg |-> msg, value |-> None]

\* event['Records'][0]['s3']['object']['key']; KeyError and IndexError are
\* raised again as ValueError
get_s3_path_from_event(ev) ==
    IF "Records" \notin DOMAIN ev
    THEN Fail("ValueError", <<"Invalid S3 event structure: ", "'Records'">>)
    ELSE IF Len(ev["Records"]) = 0
    THEN Fail("ValueError", <<"Invalid S3 event structure: ", "list index out of range">>)
    ELSE IF "s3" \notin DOMAIN ev["Records"][1]
    THEN Fail("ValueError", <<"Invalid S3 event structure: ", "'s3'">>)
    ELSE IF "object" \notin DOMAIN ev["Records"][1]["s3"]
    THEN Fail("ValueError", <<"Invalid S3 event structure: ", "'object'">>)
    ELSE IF "key" \notin DOMAIN ev["Records"][1]["s3"]["object"]
    THEN Fail("ValueError", <<"Invalid S3 event structure: ", "'key'">>)
    ELSE Ok(ev["Records"][1]["s3"]["object"]["key"])

\* get_object and pd.read_csv; any exception is raised again as Exception
read_csv_from_s3(object) ==
    IF "error" \in DOMAIN object
    THEN Fail("Exception", <<"Error reading CSV from S3: ", object["error"]>>)
    ELSE IF "frame" \notin DOMAIN object
    THEN Fail("Exception", <<"Error reading CSV from S3: ", "No columns to parse from file">>)
    ELSE Ok(object["frame"])

\* df.to_csv(index=False): the header line, then one line per row with the
\* cells in column order
ToCsv(df) ==
    <<df.columns>> \o [i \in 1..Len(df.rows) |->
                          [j \in 1..Len(df.columns) |-> df.rows[i][df.columns[j]]]]

\* os.environ.get(name)
EnvGet(env, name) == IF name \in DOMAIN env THEN env[name] ELSE None

\* not value, for a str or None
Falsy(value) == value = None \/ value = ""

\* mutant: a failed write does not end the run, the next files are written
PutObjectsBestEffort(objects, fail_at) ==
    [stored |-> IF fail_at \in 1..Len(objects)
                THEN SelectSeq(objects, LAMBDA o : o # objects[fail_at])
                ELSE objects,
     attempts |-> Len(objects),
     failed |-> FALSE]

\* write_csv_to_s3, file after file: put_object number fail_at raises
\* (0: none does), which ends the run; the files before it are stored
PutObjects(objects, fail_at) ==
    IF fail_at \in 1..Len(objects)
    THEN [stored |-> SubSeq(objects, 1, fail_at - 1), attempts |-> fail_at, failed |-> TRUE]
    ELSE [stored |-> objects, attempts |-> Len(objects), failed |-> FALSE]

ReportFile(base_filename, report, timestamp) ==
    <<"analytics/">> \o base_filename \o <<"_", report, "_", timestamp, ".csv">>

\* the files of lines 137-159, in the order written
ReportFiles(base_filename, timestamp, reports) ==
    << [Key |-> ReportFile(base_filename, "most_profitable_region", timestamp),
        Body |-> ToCsv(reports["most_profitable_region"])],
       [Key |-> ReportFile(base_filename, "most_common_ship_method", timestamp),
        Body |-> ToCsv(reports["most_common_ship_method"])],
       [Key |-> ReportFile(base_filename, "orders_by_category", timestamp),
        Body |-> ToCsv(reports["orders_by_category"])],
       [Key |-> ReportFile(base_filename, "orders_with_profit", timestamp),
        Body |-> ToCsv(reports["orders_with_profit"])] >>

\* the summary of lines 162-171, written after the files uploaded
SummaryFile(base_filename, timestamp, object_key, records, uploaded_files) ==
    [Key |-> ReportFile(base_filename, "processing_summary", timestamp),
     Body |-> ToCsv(DataFrame(
                  <<"Processing_Time", "Input_File", "Records_Processed",
                    "Reports_Generated", "Output_Files">>,
                  << ("Processing_Time" :> timestamp) @@ ("Input_File" :> object_key)
                        @@ ("Records_Processed" :> records)
                        @@ ("Reports_Generated" :> Len(uploaded_files))
                        @@ ("Output_Files" :> uploaded_files) >>))]

Keys(objects) == [i \in 1..Len(objects) |-> objects[i].Key]

Response(statusCode, body) ==
    [status |-> "returned", statusCode |-> statusCode, body |-> body]

\* what a run of the try block of lambda_handler comes to: the S3 requests
\* and analytics runs made, the files stored, and the response returned or
\* the exception raised
Run(made, stored, outcome) == [effects |-> made, stored |-> stored, outcome |-> outcome]

GetObject(bucket, key, ok) == [op |-> "get_object", Bucket |-> bucket, Key |-> key, ok |-> ok]
PutObject(bucket, key, ok) == [op |-> "put_object", Bucket |-> bucket, Key |-> key, ok |-> ok]
Analytics == [op |-> "generate_analytics_reports", Bucket |-> None, Key |-> <<>>, ok |-> TRUE]

\* what a put_object that fails raises
PutError == "AccessDenied"

\* lines 134-186: the four files, then the summary, then the response
WriteReports(output, object_key, frame, reports, timestamp, fail_at) ==
    LET base_filename == SplitextRoot(Basename(object_key))
        files == ReportFiles(base_filename, timestamp, reports)
        put == PutObjects(files, fail_at)
        uploaded_files == Keys(put.stored)
        summary == SummaryFile(base_filename, timestamp, object_key,
                               Len(frame.rows), uploaded_files)
        summary_put == PutObjects(<<summary>>, fail_at - Len(files))
        puts == [i \in 1..put.attempts |->
                    PutObject(output, files[i].Key, i <= Len(put.stored))]
    IN  IF put.failed
        THEN Run(puts, put.stored,
                 Fail("Exception", <<"Error writing CSV to S3: ", PutError>>))
        ELSE IF summary_put.failed
        THEN Run(Append(puts, PutObject(output, summary.Key, FALSE)), put.stored,
                 Fail("Exception", <<"Error writing CSV to S3: ", PutError>>))
        ELSE Run(Append(puts, PutObject(output, summary.Key, TRUE)),
                 put.stored \o summary_put.stored,
                 Ok(Response(200,
                        [message |-> "Analytics processing completed successfully",
                         input_file |-> object_key,
                         records_processed |-> Len(frame.rows),
                         reports_generated |-> uploaded_files,
                         summary_file |-> summary.Key])))

\* the run so far, continued by the writes
Continue(made, written) ==
    Run(made \o written.effects, written.stored, written.outcome)

\* lines 128-186: the reports generated, then written
Publish(get, output, object_key, reports, timestamp, fail_at) ==
    IF reports.raised # None
    THEN Run(<<get, Analytics>>, <<>>, Fail(reports.raised, <<"'", reports.key, "'">>))
    ELSE Continue(<<get, Analytics>>,
                  WriteReports(output, object_key, reports.df, reports.value,
                               timestamp, fail_at))

\* lines 122-186: the file read, then processed
Process(get, output, object_key, read, timestamp, fail_at) ==
    IF read.raised # None
    THEN Run(<<get>>, <<>>, read)
    ELSE Publish(get, output, object_key, generate_analytics_reports(read.value),
                 timestamp, fail_at)

\* lines 112-186: a key that does not end with .csv, whatever the case of
\* its letters, is skipped; object_key is path.value, a str or a number
Dispatch(input_bucket, output, key, object, timestamp, fail_at) ==
    IF "str" \notin DOMAIN key
    THEN Run(<<>>, <<>>,
             Fail("AttributeError", <<"'int' object has no attribute 'lower'">>))
    ELSE IF ~IsCsvKey(key["str"])
    THEN Run(<<>>, <<>>,
             Ok(Response(200, <<"File ", key["str"],
                                " is not a CSV file, skipping processing">>)))
    ELSE Process(GetObject(input_bucket, key["str"], "error" \notin DOMAIN object),
                 output, key["str"], read_csv_from_s3(object), timestamp, fail_at)

\* lines 105-186: the key taken from the event
Locate(input_bucket, output, path, object, timestamp, fail_at) ==
    IF path.raised # None
    THEN Run(<<>>, <<>>, path)
    ELSE Dispatch(input_bucket, output, path.value, object, timestamp, fail_at)

\* lines 94-186, the try block
LambdaBody(ev, env, object, timestamp, fail_at) ==
    IF Falsy(EnvGet(env, "INPUT_BUCKET")) \/ Falsy(EnvGet(env, "OUTPUT_BUCKET"))
    THEN Run(<<>>, <<>>,
             Fail("ValueError",
                  <<"Missing required environment variables: INPUT_BUCKET or OUTPUT_BUCKET">>))
    ELSE Locate(EnvGet(env, "INPUT_BUCKET"), EnvGet(env, "OUTPUT_BUCKET"),
                get_s3_path_from_event(ev), object, timestamp, fail_at)

\* mutant: only ValueError is caught
CatchValueErrorsOnly(run) ==
    IF run.outcome.raised = "ValueError"
    THEN Run(run.effects, run.stored,
             Ok(Response(500, [error |-> run.outcome.msg,
                               message |-> "Analytics processing failed"])))
    ELSE run

\* except Exception as e: every exception of the try block becomes the
\* response with statusCode 500
Catch(run) ==
    IF run.outcome.raised # None
    THEN Run(run.effects, run.stored,
             Ok(Response(500, [error |-> run.outcome.msg,
                               message |-> "Analytics processing failed"])))
    ELSE run

lambda_handler(ev, env, object, timestamp, fail_at) ==
    Catch(LambdaBody(ev, env, object, timestamp, fail_at))

\* what the invocation leaves as its result: the response returned, or the
\* exception that left the handler
Result(outcome) ==
    IF outcome.raised = None THEN outcome.value
    ELSE [status |-> "raised", statusCode |-> None,
          body |-> [exception |-> outcome.raised, error |-> outcome.msg]]

Invoked(run) ==
    /\ effects' = run.effects
    /\ output_bucket' = run.stored
    /\ response' = Result(run.outcome)

----------------------------------------------------------------------------
(* The inputs of an invocation *)

\* object keys, character by character
ObjectKeys ==
    << <<"o", ".", "c", "s", "v">>,
       <<"i", "n", "/", "o", ".", "C", "S", "V">>,
       <<"o", ".", "C", "s", "v">>,
       <<".", "c", "s", "v">>,
       <<"o", ".", "t", "x", "t">>,
       <<"c", "s", "v">>,
       <<"o", ".", "c", "s", "v", ".", "b">> >>

EventFor(key) ==
    [Records |-> << [eventName |-> "ObjectCreated:Put",
                     s3 |-> [bucket |-> [name |-> "orders-in"],
                             object |-> [key |-> key]]] >>]

\* events without Records[0].s3.object.key, and one whose key is a number
OtherEvents ==
    << [version |-> "0"],
       [Records |-> <<>>],
       [Records |-> << [eventName |-> "ObjectCreated:Put"] >>],
       [Records |-> << [s3 |-> [bucket |-> [name |-> "orders-in"]]] >>],
       [Records |-> << [s3 |-> [object |-> [eTag |-> "0"]]] >>],
       EventFor([num |-> 7]) >>

LambdaEvents ==
    [i \in 1..Len(ObjectKeys) |-> EventFor([str |-> ObjectKeys[i]])] \o OtherEvents

\* os.environ: both buckets named, one of them not set, one of them empty
Environments ==
    << [INPUT_BUCKET |-> "orders-in", OUTPUT_BUCKET |-> "orders-out"],
       [OUTPUT_BUCKET |-> "orders-out"],
       [INPUT_BUCKET |-> "orders-in"],
       [INPUT_BUCKET |-> "", OUTPUT_BUCKET |-> "orders-out"],
       [INPUT_BUCKET |-> "orders-in", OUTPUT_BUCKET |-> ""],
       [PATH |-> "/usr/bin"] >>

\* the DataFrames read_csv gives: every column or one missing
LambdaFrames ==
    { DataFrame(columns, [i \in 1..Len(rows) |-> Restrict(rows[i], columns)]) :
        columns \in OneColumnDropped \cup {AllColumns},
        rows \in SeqsUpTo(SchemaRows, MaxLambdaRows) }

\* generate_timestamp()
Timestamps == {"20230905_101500", "20230905_101501"}

InitLambda ==
    /\ orders_df = DataFrame(AllColumns, <<>>)
    /\ call = [fn |-> NoCall, arg |-> orders_df]
    /\ ret = NoResult
    /\ kept = NothingKept
    /\ \E i \in 1..Len(LambdaEvents) : event = LambdaEvents[i]
    /\ \E i \in 1..Len(Environments) : environ = Environments[i]
    /\ \/ \E frame \in LambdaFrames : s3_object = [frame |-> frame]
       \/ s3_object = [error |-> "NoSuchKey"]
       \/ s3_object = [garbage |-> ""]
    /\ effects = <<>>
    /\ output_bucket = <<>>
    /\ response = NotInvoked

\* one invocation of lambda_handler; put_object number fail_at raises
InvokeLambda ==
    /\ response.status = "not invoked"
    /\ \E timestamp \in Timestamps, fail_at \in 0..5 :
          Invoked(lambda_handler(event, environ, s3_object, timestamp, fail_at))
    /\ UNCHANGED <<event, environ, s3_object>>
    /\ UNCHANGED analyticsVars

NextLambda == InvokeLambda

SpecLambda == InitLambda /\ [][NextLambda]_vars

----------------------------------------------------------------------------
(* Properties.  Each is stated over the last call: call.arg is the         *)
(* DataFrame as it was passed, orders_df the same object after the call,   *)
(* ret what the call returned or raised.                                   *)

Called(fn) == call.fn = fn
ReturnedFrom(fn) == call.fn = fn /\ ret.raised = None

RowIndices(df) == 1..Len(df.rows)

RECURSIVE SumOver(_, _)
SumOver(f, S) ==
    IF S = {} THEN 0
    ELSE LET x == CHOOSE x \in S : TRUE IN f[x] + SumOver(f, S \ {x})

\* the values of a column that are present
Present(df, label) == {df.rows[i][label] : i \in RowIndices(df)} \ {NaN}

\* C1: for every DataFrame that has the four required columns,
\* calculate_profit_by_order returns, and Profit of every row is
\* List Price * Quantity * (1 - Discount Percent/100) - cost price * Quantity
\* of that same row (in hundredths); with Discount Percent 0 that is
\* (List Price - cost price) * Quantity.
C1_ProfitFormula ==
    (Called("calculate_profit_by_order")
        /\ Range(RequiredColumns) \subseteq Columns(call.arg)) =>
        /\ ret.raised = None
        /\ Len(ret.value.rows) = Len(call.arg.rows)
        /\ \A i \in RowIndices(call.arg) :
              LET row == call.arg.rows[i]
                  got == ret.value.rows[i]["Profit"]
              IN  /\ got = row["List Price"] * row["Quantity"]
                               * (100 - row["Discount Percent"])
                           - row["cost price"] * row["Quantity"] * 100
                  /\ row["Discount Percent"] = 0 =>
                        got = (row["List Price"] - row["cost price"])
                                  * row["Quantity"] * 100

\* rows of one DataFrame with different discounts, quantities and costs
C1_Witness ==
    /\ ReturnedFrom("calculate_profit_by_order")
    /\ \E i, j \in RowIndices(call.arg) :
          /\ call.arg.rows[i]["Discount Percent"] = 25
          /\ call.arg.rows[j]["Discount Percent"] = 0
          /\ call.arg.rows[i]["Quantity"] # call.arg.rows[j]["Quantity"]
          /\ call.arg.rows[i]["cost price"] # call.arg.rows[j]["cost price"]
          /\ ret.value.rows[i]["Profit"] = 400
          /\ ret.value.rows[j]["Profit"] = 100

\* the summed Profit of the rows of a region
RegionTotal(df, region) ==
    SumOver([i \in RowIndices(df) |-> df.rows[i]["Profit"]],
            {i \in RowIndices(df) : df.rows[i]["Region"] = region})

\* the regions whose total no other region's total exceeds
TopRegions(df) ==
    {g \in Present(df, "Region") :
        \A h \in Present(df, "Region") : RegionTotal(df, h) <= RegionTotal(df, g)}

\* C2: calculate_most_profitable_region returns exactly the regions whose
\* summed Profit is the numeric maximum of the per-region sums: every tied
\* region once, with its total, and no region with a smaller total; the
\* least negative total wins when all are negative, and one region gives one
\* row.
C2_MostProfitableRegions ==
    ReturnedFrom("calculate_most_profitable_region") =>
        LET rows == ret.value.rows
        IN  /\ {rows[i]["Region"] : i \in 1..Len(rows)} = TopRegions(call.arg)
            /\ Len(rows) = Cardinality(TopRegions(call.arg))
            /\ \A i \in 1..Len(rows) :
                  rows[i]["Total_Profit"] = RegionTotal(call.arg, rows[i]["Region"])
            /\ Cardinality(Present(call.arg, "Region")) = 1 => Len(rows) = 1

\* two regions tied at a negative total, a third one below them
C2_Witness ==
    /\ ReturnedFrom("calculate_most_profitable_region")
    /\ Cardinality(Present(call.arg, "Region")) = 3
    /\ Len(ret.value.rows) = 2
    /\ ret.value.rows[1]["Total_Profit"] < 0

\* the number of rows of df with this category and this ship mode
ShipCount(df, category, mode) ==
    Cardinality({i \in RowIndices(df) :
        df.rows[i]["Category"] = category /\ df.rows[i]["Ship Mode"] = mode})

\* the ship modes present in the rows of a category
ModesOf(df, category) ==
    {df.rows[i]["Ship Mode"] : i \in {j \in RowIndices(df) :
        df.rows[j]["Category"] = category}} \ {NaN}

\* the ship modes of a category whose count no other mode of it exceeds
TopModes(df, category) ==
    {m \in ModesOf(df, category) :
        \A n \in ModesOf(df, category) :
            ShipCount(df, category, n) <= ShipCount(df, category, m)}

\* the rows of the report are exactly the (category, top mode, count)
\* triples of these categories, each once
ShipReportIs(report, df, categories) ==
    /\ {<<report.rows[i]["Category"], report.rows[i]["Ship Mode"],
          report.rows[i]["Count"]>> : i \in 1..Len(report.rows)}
         = {<<c, m, ShipCount(df, c, m)>> :
               <<c, m>> \in {cm \in categories \X Present(df, "Ship Mode") :
                                cm[2] \in TopModes(df, cm[1])}}
    /\ \A i, j \in 1..Len(report.rows) :
          (report.rows[i]["Category"] = report.rows[j]["Category"]
              /\ report.rows[i]["Ship Mode"] = report.rows[j]["Ship Mode"]) => i = j

\* the categories that occur with a ship mode
CategoriesWithMode(df) == {c \in Present(df, "Category") : ModesOf(df, c) # {}}

\* C3 as stated: the report holds, for each distinct Category of the input,
\* exactly its most frequent Ship Modes with their count, and every category
\* of the input has at least one row in it.
C3_EveryCategoryReported ==
    ReturnedFrom("find_most_common_ship_method") =>
        /\ ShipReportIs(ret.value, call.arg, Present(call.arg, "Category"))
        /\ \A c \in Present(call.arg, "Category") :
              \E i \in 1..Len(ret.value.rows) : ret.value.rows[i]["Category"] = c

\* C3, amended: the report holds, for each distinct Category that occurs in
\* a row with a Ship Mode, exactly the Ship Modes whose number of rows in
\* that category is the category's maximum, each with that count; all tied
\* modes are kept, none below the maximum appears, and each such category
\* has at least one row.  Rows without a Category or without a Ship Mode are
\* not counted, and a category that never has a Ship Mode has no row.
C3_MostCommonShipMethod ==
    ReturnedFrom("find_most_common_ship_method") =>
        /\ ShipReportIs(ret.value, call.arg, CategoriesWithMode(call.arg))
        /\ \A c \in Present(call.arg, "Category") :
              (\E i \in 1..Len(ret.value.rows) : ret.value.rows[i]["Category"] = c)
                  <=> c \in CategoriesWithMode(call.arg)

\* a category whose two modes occur once each gets one row per mode, and a
\* second category, whose only row has no Ship Mode, gets none
C3_Witness ==
    /\ ReturnedFrom("find_most_common_ship_method")
    /\ Present(call.arg, "Category") = {"Furniture", "Office Supplies"}
    /\ ModesOf(call.arg, "Office Supplies") = {}
    /\ Len(ret.value.rows) = 2
    /\ \A i \in 1..2 : /\ ret.value.rows[i]["Category"] = "Furniture"
                       /\ ret.value.rows[i]["Count"] = 1

\* the (Category, Sub Category) pairs of the rows that have both
PairsOf(df) ==
    {<<df.rows[i]["Category"], df.rows[i]["Sub Category"]>> : i \in
        {j \in RowIndices(df) : /\ df.rows[j]["Category"] # NaN
                                /\ df.rows[j]["Sub Category"] # NaN}}

PairCount(df, pair) ==
    Cardinality({i \in RowIndices(df) :
        /\ df.rows[i]["Category"] = pair[1]
        /\ df.rows[i]["Sub Category"] = pair[2]})

\* C4: find_number_of_order_per_category returns one row per distinct
\* (Category, Sub Category) pair of the input, its order_count the number of
\* input rows with that pair, and the order_counts sum to the number of input
\* rows whose Category and Sub Category are both present.  (A pair is a pair
\* of present values: the last clause excludes the other rows.)
C4_OrdersPerCategory ==
    ReturnedFrom("find_number_of_order_per_category") =>
        LET rows == ret.value.rows
        IN  /\ {<<rows[i]["Category"], rows[i]["Sub Category"]>> :
                   i \in 1..Len(rows)} = PairsOf(call.arg)
            /\ Len(rows) = Cardinality(PairsOf(call.arg))
            /\ \A i \in 1..Len(rows) :
                  rows[i]["order_count"]
                      = PairCount(call.arg,
                                  <<rows[i]["Category"], rows[i]["Sub Category"]>>)
            /\ SumOver([i \in 1..Len(rows) |-> rows[i]["order_count"]], 1..Len(rows))
                  = Cardinality({i \in RowIndices(call.arg) :
                        /\ call.arg.rows[i]["Category"] # NaN
                        /\ call.arg.rows[i]["Sub Category"] # NaN})

\* two pairs, one of them twice, and a row without a Sub Category
C4_Witness ==
    /\ ReturnedFrom("find_number_of_order_per_category")
    /\ Len(call.arg.rows) = MaxRows
    /\ Len(ret.value.rows) = 1
    /\ ret.value.rows[1]["order_count"] = MaxRows - 1
    /\ \E i \in RowIndices(call.arg) : call.arg.rows[i]["Sub Category"] = NaN

\* C5 as stated: calculate_profit_by_order and generate_analytics_reports
\* leave the DataFrame object passed to them with the columns and values it
\* had (no Profit column is added to it).
C5_ArgumentUnchanged ==
    (Called("calculate_profit_by_order") \/ Called("generate_analytics_reports"))
        => orders_df = call.arg

\* C6: on a DataFrame that lacks any of cost price, List Price, Quantity and
\* Discount Percent, calculate_profit_by_order raises KeyError for a missing
\* label and writes nothing: the DataFrame is as it was passed, without a
\* Profit column if it had none.
C6_MissingFieldRaises ==
    (Called("calculate_profit_by_order")
        /\ ~(Range(RequiredColumns) \subseteq Columns(call.arg))) =>
        /\ ret.raised = "KeyError"
        /\ ret.key \in Range(RequiredColumns) \ Columns(call.arg)
        /\ "Profit" \notin Columns(call.arg) => "Profit" \notin Columns(orders_df)
        /\ orders_df = call.arg
        /\ ret.value = None

\* cost price, the last column read, is the only one missing
C6_Witness ==
    /\ Called("calculate_profit_by_order")
    /\ Range(RequiredColumns) \ Columns(call.arg) = {"cost price"}
    /\ Len(call.arg.rows) > 0
    /\ ret.raised = "KeyError"
    /\ ret.key = "cost price"

\* C7: on a DataFrame with no rows that has the columns a function reads,
\* none of the four functions raises: calculate_profit_by_order returns an
\* empty DataFrame with a Profit column, calculate_most_profitable_region an
\* empty one with the columns Region and Total_Profit,
\* find_most_common_ship_method an empty one with the columns Category, Ship
\* Mode and Count, find_number_of_order_per_category an empty one.
C7_EmptyInput ==
    Len(call.arg.rows) = 0 =>
        /\ (Called("calculate_profit_by_order")
               /\ Range(RequiredColumns) \subseteq Columns(call.arg)) =>
              /\ ret.raised = None
              /\ Len(ret.value.rows) = 0
              /\ "Profit" \in Columns(ret.value)
        /\ (Called("calculate_most_profitable_region")
               /\ {"Region", "Profit"} \subseteq Columns(call.arg)) =>
              /\ ret.raised = None
              /\ Len(ret.value.rows) = 0
              /\ ret.value.columns = <<"Region", "Total_Profit">>
        /\ (Called("find_most_common_ship_method")
               /\ {"Category", "Ship Mode"} \subseteq Columns(call.arg)) =>
              /\ ret.raised = None
              /\ Len(ret.value.rows) = 0
              /\ ret.value.columns = <<"Category", "Ship Mode", "Count">>
        /\ (Called("find_number_of_order_per_category")
               /\ {"Category", "Sub Category"} \subseteq Columns(call.arg)) =>
              /\ ret.raised = None
              /\ Len(ret.value.rows) = 0

\* the region report of the empty DataFrame calculate_profit_by_order returned
C7_Witness ==
    /\ ReturnedFrom("calculate_most_profitable_region")
    /\ Len(call.arg.rows) = 0
    /\ Range(AllColumns) \cup {"Profit"} = Columns(call.arg)
    /\ Len(ret.value.rows) = 0

\* C8: the DataFrame calculate_profit_by_order returns has the rows of the
\* input, as many and in the same order, every original column with its
\* values, and one more column, Profit, with a value in every row.
C8_ProfitPreservesFrame ==
    ReturnedFrom("calculate_profit_by_order") =>
        /\ Len(ret.value.rows) = Len(call.arg.rows)
        /\ ret.value.columns = IF "Profit" \in Columns(call.arg) THEN call.arg.columns
                               ELSE Append(call.arg.columns, "Profit")
        /\ \A i \in RowIndices(call.arg) :
              /\ DOMAIN ret.value.rows[i] = Columns(call.arg) \cup {"Profit"}
              /\ ret.value.rows[i]["Profit"] \in Int
              /\ \A c \in Columns(call.arg) \ {"Profit"} :
                    ret.value.rows[i][c] = call.arg.rows[i][c]

\* MaxRows rows, the first two different, and no Profit column before
C8_Witness ==
    /\ ReturnedFrom("calculate_profit_by_order")
    /\ "Profit" \notin Columns(call.arg)
    /\ Len(call.arg.rows) = MaxRows
    /\ call.arg.rows[1] # call.arg.rows[2]
    /\ Columns(call.arg) = Range(AllColumns)

ReportNames ==
    {"orders_with_profit", "most_profitable_region", "most_common_ship_method",
     "orders_by_category"}

\* C9: generate_analytics_reports returns exactly the four tables
\* orders_with_profit, most_profitable_region, most_common_ship_method and
\* orders_by_category; most_profitable_region is
\* calculate_most_profitable_region of the DataFrame with Profit, and the
\* other two reports are what find_most_common_ship_method and
\* find_number_of_order_per_category return on the DataFrame as it was
\* passed: the Profit column changes neither.
C9_ReportsBundle ==
    ReturnedFrom("generate_analytics_reports") =>
        LET augmented == calculate_profit_by_order(call.arg).value
        IN  /\ DOMAIN ret.value = ReportNames
            /\ ret.value["orders_with_profit"] = augmented
            /\ ret.value["most_profitable_region"]
                  = calculate_most_profitable_region(augmented).value
            /\ ret.value["most_common_ship_method"]
                  = find_most_common_ship_method(call.arg).value
            /\ ret.value["orders_by_category"]
                  = find_number_of_order_per_category(call.arg).value

\* a DataFrame passed without Profit whose reports all have rows
C9_Witness ==
    /\ ReturnedFrom("generate_analytics_reports")
    /\ "Profit" \notin Columns(call.arg)
    /\ "Profit" \in Columns(orders_df)
    /\ Len(ret.value["most_profitable_region"].rows) = 1
    /\ Len(ret.value["most_common_ship_method"].rows) = 2
    /\ Len(ret.value["orders_by_category"].rows) = 1

\* C10: when the profit calculation fails for a missing required column,
\* generate_analytics_reports raises that same error and returns no bundle,
\* not even the reports that do not need Profit.
C10_FailFast ==
    (Called("generate_analytics_reports")
        /\ calculate_profit_by_order(call.arg).raised # None) =>
        /\ ret.raised = "KeyError"
        /\ ret.key = calculate_profit_by_order(call.arg).key
        /\ ret.value = None

\* only cost price is missing: the ship-method and category reports could
\* have been computed
C10_Witness ==
    /\ Called("generate_analytics_reports")
    /\ Range(AllColumns) \ Columns(call.arg) = {"cost price"}
    /\ Len(call.arg.rows) > 0
    /\ ret.raised = "KeyError"
    /\ ret.key = "cost price"
    /\ find_most_common_ship_method(call.arg).raised = None
    /\ find_number_of_order_per_category(call.arg).raised = None

\* the same outcome: the same exception, or the same tables
SameOutcome(a, b) ==
    /\ a.raised = b.raised
    /\ a.key = b.key
    /\ a.raised = None => a.value = b.value

\* C11: a function called again with the same DataFrame gives what it gave
\* before: when a call returned tables, every later call of that function
\* with the DataFrame object returns the same tables, whatever calls were
\* made in between (calculate_profit_by_order and generate_analytics_reports
\* are then called on the DataFrame they have already processed); and a
\* call with an argument of equal value has the same outcome.
C11_RerunSameResult ==
    (kept.fn # NoCall /\ call.fn = kept.fn) =>
        /\ kept.ret.raised = None => SameOutcome(ret, kept.ret)
        /\ call.arg = kept.arg => SameOutcome(ret, kept.ret)

\* calculate_profit_by_order called again on the DataFrame to which its
\* first call has added the Profit column
C11_Witness ==
    /\ kept.fn = "calculate_profit_by_order"
    /\ kept.ret.raised = None
    /\ "Profit" \notin Columns(kept.arg)
    /\ Len(kept.arg.rows) = MaxRerunRows
    /\ ReturnedFrom("calculate_profit_by_order")
    /\ "Profit" \in Columns(call.arg)
    /\ ret.value = kept.ret.value

\* C12: the rows of the region report are in strictly ascending order of
\* region name (code-point order of the names), whatever the order of the
\* rows of the input.
C12_RegionsAscending ==
    ReturnedFrom("calculate_most_profitable_region") =>
        \A i, j \in 1..Len(ret.value.rows) :
            i < j => Ord(ret.value.rows[i]["Region"]) < Ord(ret.value.rows[j]["Region"])

\* three tied regions that the input holds in descending order
C12_Witness ==
    /\ ReturnedFrom("calculate_most_profitable_region")
    /\ Len(call.arg.rows) = 3
    /\ <<call.arg.rows[1]["Region"], call.arg.rows[2]["Region"],
         call.arg.rows[3]["Region"]>> = <<"West", "East", "Central">>
    /\ Len(ret.value.rows) = 3
    /\ ret.value.rows[1]["Region"] = "Central"

\* C13: the rows of the ship-method report are in ascending order of
\* (Category, Ship Mode), Category first and Ship Mode second, and no
\* (Category, Ship Mode) pair occurs twice, whatever the order of the rows
\* of the input.
C13_ShipReportAscending ==
    ReturnedFrom("find_most_common_ship_method") =>
        \A i, j \in 1..Len(ret.value.rows) :
            i < j =>
                LET a == ret.value.rows[i]
                    b == ret.value.rows[j]
                IN  \/ Ord(a["Category"]) < Ord(b["Category"])
                    \/ /\ a["Category"] = b["Category"]
                       /\ Ord(a["Ship Mode"]) < Ord(b["Ship Mode"])

\* two categories and two modes that the input holds in descending order
C13_Witness ==
    /\ ReturnedFrom("find_most_common_ship_method")
    /\ Len(call.arg.rows) = 3
    /\ <<call.arg.rows[1]["Category"], call.arg.rows[1]["Ship Mode"]>>
          = <<"Office Supplies", "First Class">>
    /\ <<call.arg.rows[2]["Category"], call.arg.rows[2]["Ship Mode"]>>
          = <<"Furniture", "Standard Class">>
    /\ <<call.arg.rows[3]["Category"], call.arg.rows[3]["Ship Mode"]>>
          = <<"Furniture", "First Class">>
    /\ Len(ret.value.rows) = 3
    /\ ret.value.rows[3]["Category"] = "Office Supplies"

----------------------------------------------------------------------------
(* Properties of lambda_handler, under SpecLambda *)

Finished == response.status # "not invoked"

EnvUnset ==
    \/ "INPUT_BUCKET" \notin DOMAIN environ
    \/ "OUTPUT_BUCKET" \notin DOMAIN environ
    \/ environ["INPUT_BUCKET"] = ""
    \/ environ["OUTPUT_BUCKET"] = ""

\* the event has Records[0].s3.object.key
EventHasKey ==
    /\ "Records" \in DOMAIN event
    /\ Len(event["Records"]) > 0
    /\ "s3" \in DOMAIN event["Records"][1]
    /\ "object" \in DOMAIN event["Records"][1]["s3"]
    /\ "key" \in DOMAIN event["Records"][1]["s3"]["object"]

EventKey == event["Records"][1]["s3"]["object"]["key"]

Made(op) == SelectSeq(effects, LAMBDA e : e.op = op)

FailedOnes(op) == SelectSeq(effects, LAMBDA e : e.op = op /\ ~e.ok)

ReadFailed == Len(Made("get_object")) > 0 /\ "frame" \notin DOMAIN s3_object

AnalyticsFailed ==
    /\ Len(Made("generate_analytics_reports")) > 0
    /\ generate_analytics_reports(s3_object.frame).raised # None

WriteFailed == Len(FailedOnes("put_object")) > 0

\* the response has statusCode 500 and its error begins with prefix
Status500(prefix) ==
    /\ response.status = "returned"
    /\ response.statusCode = 500
    /\ response.body.message = "Analytics processing failed"
    /\ Len(response.body.error) > 0
    /\ response.body.error[1] = prefix

Skipped ==
    /\ effects = <<>>
    /\ EventHasKey
    /\ "str" \in DOMAIN EventKey
    /\ Len(response.body) = 3
    /\ response.body[2] = EventKey["str"]

AllFiveWritten ==
    /\ Len(Made("put_object")) = 5
    /\ Len(FailedOnes("put_object")) = 0
    /\ Len(output_bucket) = 5

\* C14: lambda_handler never propagates an exception.  Whatever step fails
\* (a bucket variable unset, an event without Records[0].s3.object.key, the
\* S3 read, a missing field in generate_analytics_reports, an S3 write), it
\* returns statusCode 500 with the message of the error; it returns 200
\* only when it skipped a non-CSV key or when all five writes succeeded.
C14_NeverPropagates ==
    Finished =>
        /\ response.status = "returned"
        /\ response.statusCode \in {200, 500}
        /\ EnvUnset => Status500("Missing required environment variables: INPUT_BUCKET or OUTPUT_BUCKET")
        /\ (~EnvUnset /\ ~EventHasKey) => Status500("Invalid S3 event structure: ")
        /\ ReadFailed => Status500("Error reading CSV from S3: ")
        /\ AnalyticsFailed =>
              /\ Status500("'")
              /\ response.body.error[2] \in Range(AllColumns) \ Columns(s3_object.frame)
        /\ WriteFailed => Status500("Error writing CSV to S3: ")
        /\ response.statusCode = 200 => Skipped \/ AllFiveWritten

\* the third write failed, after a read and the analytics that succeeded
C14_Witness ==
    /\ Finished
    /\ Len(Made("put_object")) = 3
    /\ WriteFailed
    /\ response.statusCode = 500
    /\ Len(output_bucket) = 2

\* the report a file name analytics/<base>_<report>_<timestamp>.csv is of
ReportOf(key) == key[Len(key) - 3]

WriteOrder ==
    << "most_profitable_region", "most_common_ship_method", "orders_by_category",
       "orders_with_profit", "processing_summary" >>

Puts == Made("put_object")

\* C15: a successful run writes exactly five objects to the output bucket,
\* in the order most_profitable_region, most_common_ship_method,
\* orders_by_category, orders_with_profit, processing summary.  The summary
\* is written only after the four reports were written, and lists exactly
\* their four file names with Reports_Generated = 4.  When a write fails no
\* later write is attempted, the objects written before it stay in the
\* bucket, and the response is 500.
C15_WritesInOrder ==
    Finished =>
        /\ \A i \in 1..Len(Puts) :
              /\ i <= 5
              /\ ReportOf(Puts[i].Key) = WriteOrder[i]
              /\ Puts[i].Bucket = environ["OUTPUT_BUCKET"]
              /\ ~Puts[i].ok => i = Len(Puts)
        /\ Keys(output_bucket) =
              [i \in 1..(Len(Puts) - Len(FailedOnes("put_object"))) |-> Puts[i].Key]
        /\ WriteFailed => Status500("Error writing CSV to S3: ")
        /\ (response.status = "returned" /\ response.statusCode = 200 /\ ~Skipped) =>
              /\ AllFiveWritten
              /\ response.body.reports_generated = Keys(SubSeq(output_bucket, 1, 4))
              /\ response.body.summary_file = output_bucket[5].Key
        /\ Len(output_bucket) = 5 =>
              LET summary == output_bucket[5].Body
              IN  /\ Len(summary) = 2
                  /\ summary[1][4] = "Reports_Generated" /\ summary[2][4] = 4
                  /\ summary[1][5] = "Output_Files"
                  /\ summary[2][5] = Keys(SubSeq(output_bucket, 1, 4))

\* a run that wrote the four reports of a file of one order and the summary
C15_Witness ==
    /\ Finished
    /\ response.statusCode = 200
    /\ Len(output_bucket) = 5
    /\ Len(s3_object.frame.rows) = 1
    /\ Len(output_bucket[4].Body) = 2

\* the key ends in .csv, in whatever case its letters are
EndsInCsv(key) ==
    /\ Len(key) >= 4
    /\ key[Len(key) - 3] = "."
    /\ key[Len(key) - 2] \in {"c", "C"}
    /\ key[Len(key) - 1] \in {"s", "S"}
    /\ key[Len(key)] \in {"v", "V"}

\* C16 as stated: for a key that does not end in .csv, compared without
\* regard to case, lambda_handler returns statusCode 200 and reads no
\* object, does not run the analytics and writes no object; a key that ends
\* in .csv in any letter case is always read and processed.  Lines 100-101
\* raise before the key is looked at when a bucket variable is not set, and
\* a read that fails ends the run before the analytics.
C16_AlwaysSkippedOrProcessed ==
    (Finished /\ EventHasKey /\ "str" \in DOMAIN EventKey) =>
        /\ ~EndsInCsv(EventKey["str"]) =>
              /\ response.status = "returned"
              /\ response.statusCode = 200
              /\ effects = <<>>
              /\ output_bucket = <<>>
        /\ EndsInCsv(EventKey["str"]) =>
              /\ Len(Made("get_object")) = 1
              /\ Len(Made("generate_analytics_reports")) = 1

\* C16, amended: for a key that does not end in .csv, compared without
\* regard to case, lambda_handler reads no object, does not run the
\* analytics and writes no object, and returns statusCode 200 when both
\* bucket variables are set (500 otherwise); a key that ends in .csv in any
\* letter case is, when both bucket variables are set, read from the input
\* bucket and, when the read succeeds, processed.
C16_OnlyCsvProcessed ==
    (Finished /\ EventHasKey /\ "str" \in DOMAIN EventKey) =>
        /\ ~EndsInCsv(EventKey["str"]) =>
              /\ effects = <<>>
              /\ output_bucket = <<>>
              /\ ~EnvUnset =>
                    /\ response.status = "returned"
                    /\ response.statusCode = 200
                    /\ Skipped
              /\ EnvUnset => Status500("Missing required environment variables: INPUT_BUCKET or OUTPUT_BUCKET")
        /\ (EndsInCsv(EventKey["str"]) /\ ~EnvUnset) =>
              /\ Len(effects) > 0
              /\ effects[1].op = "get_object"
              /\ effects[1].Key = EventKey["str"]
              /\ effects[1].Bucket = environ["INPUT_BUCKET"]
              /\ "frame" \in DOMAIN s3_object =>
                    /\ Len(effects) > 1
                    /\ effects[2].op = "generate_analytics_reports"
              /\ response.status = "returned"
              /\ response.statusCode = 200 => AllFiveWritten

\* the key in/o.CSV was read and processed, its reports are named after o
C16_Witness ==
    /\ Finished
    /\ EventHasKey
    /\ "str" \in DOMAIN EventKey
    /\ EventKey["str"] = <<"i", "n", "/", "o", ".", "C", "S", "V">>
    /\ Len(output_bucket) = 5
    /\ output_bucket[1].Key[2] = "o"
    /\ output_bucket[1].Key[3] = "_"

====
